---- MODULE Spec2Model ----
(***************************************************************************)
(* Model of the ingredient inventory service (routers/ingredients.py and   *)
(* routers/ingredientbatches.py): the Ingredients and IngredientBatches    *)
(* tables, the request handlers that read and write them behind the token  *)
(* validation, and the deduct-from-sale transaction, statement by          *)
(* statement, alone and as two concurrent requests.                        *)
(*                                                                         *)
(* Conventions.                                                            *)
(*  - Character strings are sequences of one-character strings, so that    *)
(*    str.lower() and the store's string comparison are computed.          *)
(*  - Amounts and quantities are fixed-point numbers counted in tenths     *)
(*    (0.5 is 5, 50 is 500): the thresholds 0.5 need one decimal.          *)
(*  - Dates are day numbers.                                               *)
(*  - The columns the handlers only copy (BestBeforeDate, the ingredient's *)
(*    ExpirationDate, Unit, BatchDate, RestockDate, LoggedBy, Notes) are   *)
(*    left out of the rows.                                                *)
(***************************************************************************)
EXTENDS Integers, Sequences, FiniteSets, TLC

VARIABLES
    Ingredients,        \* committed Ingredients table: IngredientID -> row
    IngredientBatches,  \* committed IngredientBatches table: BatchID -> row
    nextIngredientID,   \* identity counter of Ingredients
    nextBatchID,        \* identity counter of IngredientBatches
    today,              \* date.today() / datetime.now().date()
    dbCaseInsensitive,  \* whether the store's default collation ignores case
    pc,                 \* position of the deduct-from-sale request in flight
    sale_data,          \* its request body: the sequence of cart items
    item,               \* index of the cart item being processed
    recipe_ingredients, \* RecipeIngredients rows still to deduct for that item
    recipe_id,          \* RecipeID found for that item
    conn,               \* the Ingredients table as the open transaction sees it
    nUpdates,           \* Amount UPDATE statements executed by the transaction
    nSkipped,           \* cart items skipped for want of a recipe (the log lines)
    before,             \* the Ingredients table when the request began
    resp,               \* outcome of the last request that ended
    auth,               \* what the identity service makes of the caller's token
    sales,              \* the concurrent deduct-from-sale requests, by request
    calls               \* the other requests between two statements, by request

vars == <<Ingredients, IngredientBatches, nextIngredientID, nextBatchID, today,
          dbCaseInsensitive, pc, sale_data, item, recipe_id, recipe_ingredients,
          conn, nUpdates, nSkipped, before, resp, auth, sales, calls>>

saleVars == <<pc, sale_data, item, recipe_id, recipe_ingredients, conn, nUpdates,
             nSkipped, before>>

-----------------------------------------------------------------------------
(* Bounds of the model *)

MaxIngredients == 2   \* IngredientIDs handed out
MaxBatches == 2       \* BatchIDs handed out
MaxDay == 2           \* last day the clock reaches
MaxCart == 2          \* cart items in one sale
MaxDebt == 0
MaxAmount == 400    \* overlapping batch updates begin on Amounts up to it          \* a sale is started only while no Amount is below -MaxDebt

-----------------------------------------------------------------------------
(* Character strings *)

UpperLetters == <<"A","B","C","D","E","F","G","H","I","J","K","L","M",
                  "N","O","P","Q","R","S","T","U","V","W","X","Y","Z">>
LowerLetters == <<"a","b","c","d","e","f","g","h","i","j","k","l","m",
                  "n","o","p","q","r","s","t","u","v","w","x","y","z">>

LowerChar(c) ==
    IF \E k \in DOMAIN UpperLetters : UpperLetters[k] = c
    THEN LowerLetters[CHOOSE k \in DOMAIN UpperLetters : UpperLetters[k] = c]
    ELSE c

\* str.lower()
lower(s) == [k \in DOMAIN s |-> LowerChar(s[k])]

\* The store compares strings after padding the shorter one with blanks,
\* that is, with trailing blanks ignored.
RECURSIVE RTrim(_)
RTrim(s) ==
    IF s # <<>> /\ s[Len(s)] = " " THEN RTrim(SubSeq(s, 1, Len(s) - 1)) ELSE s

\* a = b under the collation Latin1_General_CI_AS
SqlEqCI(a, b) == lower(RTrim(a)) = lower(RTrim(b))

\* a = b under the store's default collation
SqlEq(a, b) ==
    IF dbCaseInsensitive THEN SqlEqCI(a, b) ELSE RTrim(a) = RTrim(b)

-----------------------------------------------------------------------------
(* Threshold rule of the single-record path *)

\* thresholds.get(meas_lower, 1), in tenths
thresholds(meas_lower) ==
    CASE meas_lower = <<"g">> -> 500
      [] meas_lower = <<"k","g">> -> 5
      [] meas_lower = <<"m","l">> -> 1000
      [] meas_lower = <<"l">> -> 5
      [] OTHER -> 10

get_status_NoBoundary(amount, measurement) ==
    LET meas_lower == lower(measurement) IN
    IF amount <= 0 THEN "Not Available"
    ELSE IF amount < thresholds(meas_lower) THEN "Low Stock"
    ELSE "Available"

get_status(amount, measurement) ==
    LET meas_lower == lower(measurement) IN
    IF amount <= 0 THEN "Not Available"
    ELSE IF amount <= thresholds(meas_lower) THEN "Low Stock"
    ELSE "Available"

-----------------------------------------------------------------------------
(* The connection *)

\* get_db_connection opens its connection with autocommit off: statements
\* take effect in the table at commit and are discarded by rollback or close.
autocommit == FALSE

\* The table other requests see after a statement of an open transaction
Visible(committed, working) == IF autocommit THEN working ELSE committed

NoResp == [op |-> "none", code |-> 0]

\* The requests that can be under way at once, each on a connection of its
\* own: a handler gives way to the others at every await
Requests == {1, 2}

\* The locals of a request that is not under way
NoCall == [op |-> "none"]

\* No request is between two statements
Quiet == \A r \in Requests : calls[r] = NoCall

-----------------------------------------------------------------------------
(* Token validation *)

\* auth is the outcome of client.get(USER_SERVICE_ME_URL) with the token of
\* the request: [kind |-> "ok", userRole |-> r] for a 2xx answer carrying
\* the role r, [kind |-> "HTTPStatusError", status_code |-> c] for a non-2xx
\* answer, [kind |-> "RequestError"] when the service cannot be reached.

\* validate_token_and_roles: 200 when it returns, otherwise the status code
\* of the HTTPException it raises
validate_token_and_roles_AnyRole(allowed_roles) ==
    CASE auth.kind = "HTTPStatusError" -> auth.status_code
      [] auth.kind = "RequestError" -> 503
      [] OTHER -> 200

validate_token_and_roles(allowed_roles) ==
    CASE auth.kind = "HTTPStatusError" -> auth.status_code
      [] auth.kind = "RequestError" -> 503
      [] auth.kind = "ok" /\ auth.userRole \notin allowed_roles -> 403
      [] OTHER -> 200

Idle == pc = "idle"

\* The HTTPException of validate_token_and_roles leaves the handler at its
\* first statement, before get_db_connection()
HTTPException(op, status_code) ==
    /\ Idle
    /\ resp' = [op |-> op, code |-> status_code]
    /\ UNCHANGED <<Ingredients, IngredientBatches, nextIngredientID, nextBatchID,
                   today, dbCaseInsensitive, auth, sales, calls, pc, sale_data, item,
                   recipe_id, recipe_ingredients, conn, nUpdates, nSkipped, before>>

-----------------------------------------------------------------------------
(* Ingredient handlers *)

\* SELECT 1 FROM Ingredients WHERE IngredientName COLLATE Latin1_General_CI_AS = ?
NameExists_ExactMatch(IngredientName) ==
    \E i \in DOMAIN Ingredients : Ingredients[i].IngredientName = IngredientName

NameExists(IngredientName) ==
    \E i \in DOMAIN Ingredients :
        SqlEqCI(Ingredients[i].IngredientName, IngredientName)

\* ... AND IngredientID != ?
NameExistsElsewhere(IngredientName, ingredient_id) ==
    \E i \in DOMAIN Ingredients :
        /\ SqlEqCI(Ingredients[i].IngredientName, IngredientName)
        /\ i # ingredient_id

\* validate, SELECT 1 ... WHERE IngredientName = ?, 409 or go on
add_ingredient(r, IngredientName, Amount, Measurement) ==
    IF validate_token_and_roles({"admin", "manager", "staff"}) # 200
    THEN HTTPException("add_ingredient", validate_token_and_roles({"admin", "manager", "staff"}))
    ELSE
    /\ Idle
    /\ calls[r] = NoCall
    /\ IF NameExists(IngredientName)
       THEN /\ resp' = [op |-> "add_ingredient", code |-> 409,
                        name |-> IngredientName]
            /\ UNCHANGED calls
       ELSE /\ nextIngredientID + Cardinality({q \in Requests :
                    calls[q].op = "add_ingredient"}) <= MaxIngredients
            /\ calls' = [calls EXCEPT ![r] =
                  [op |-> "add_ingredient", IngredientName |-> IngredientName,
                   Amount |-> Amount, Measurement |-> Measurement]]
            /\ resp' = [op |-> "add_ingredient", code |-> 0]
    /\ UNCHANGED <<Ingredients, IngredientBatches, nextIngredientID, nextBatchID,
                   today, dbCaseInsensitive, auth, sales, saleVars>>

\* get_status, INSERT INTO Ingredients ... OUTPUT INSERTED, commit, 201
add_ingredient_insert(r) ==
    /\ calls[r].op = "add_ingredient"
    /\ LET status_val == get_status(calls[r].Amount, calls[r].Measurement)
           row == [IngredientName |-> calls[r].IngredientName,
                   Amount |-> calls[r].Amount,
                   Measurement |-> calls[r].Measurement, Status |-> status_val]
       IN /\ Ingredients' = (nextIngredientID :> row) @@ Ingredients
          /\ nextIngredientID' = nextIngredientID + 1
          /\ resp' = [op |-> "add_ingredient", code |-> 201,
                      id |-> nextIngredientID, row |-> row]
    /\ calls' = [calls EXCEPT ![r] = NoCall]
    /\ UNCHANGED <<IngredientBatches, nextBatchID, today, dbCaseInsensitive,
                   auth, sales, saleVars>>

\* validate, SELECT 1 ... WHERE IngredientName = ? AND IngredientID != ?,
\* 409 or go on
update_ingredient(r, ingredient_id, IngredientName, Amount, Measurement) ==
    IF validate_token_and_roles({"admin", "manager", "staff"}) # 200
    THEN HTTPException("update_ingredient", validate_token_and_roles({"admin", "manager", "staff"}))
    ELSE
    /\ Idle
    /\ calls[r] = NoCall
    /\ IF NameExistsElsewhere(IngredientName, ingredient_id)
       THEN /\ resp' = [op |-> "update_ingredient", code |-> 409,
                        id |-> ingredient_id, name |-> IngredientName]
            /\ UNCHANGED calls
       ELSE /\ calls' = [calls EXCEPT ![r] =
                  [op |-> "update_ingredient", ingredient_id |-> ingredient_id,
                   IngredientName |-> IngredientName,
                   Amount |-> Amount, Measurement |-> Measurement]]
            /\ resp' = [op |-> "update_ingredient", code |-> 0]
    /\ UNCHANGED <<Ingredients, IngredientBatches, nextIngredientID, nextBatchID,
                   today, dbCaseInsensitive, auth, sales, saleVars>>

\* get_status, UPDATE Ingredients SET ... WHERE IngredientID = ?, SELECT the
\* row, 404 without commit when there is none, else commit, 200
update_ingredient_write(r) ==
    /\ calls[r].op = "update_ingredient"
    /\ LET ingredient_id == calls[r].ingredient_id
           status_val == get_status(calls[r].Amount, calls[r].Measurement)
           row == [IngredientName |-> calls[r].IngredientName,
                   Amount |-> calls[r].Amount,
                   Measurement |-> calls[r].Measurement, Status |-> status_val]
       IN IF ingredient_id \notin DOMAIN Ingredients
          THEN /\ resp' = [op |-> "update_ingredient", code |-> 404]
               /\ UNCHANGED Ingredients
          ELSE /\ Ingredients' = [Ingredients EXCEPT ![ingredient_id] = row]
               /\ resp' = [op |-> "update_ingredient", code |-> 200,
                           id |-> ingredient_id, row |-> row]
    /\ calls' = [calls EXCEPT ![r] = NoCall]
    /\ UNCHANGED <<IngredientBatches, nextIngredientID, nextBatchID, today,
                   dbCaseInsensitive, auth, sales, saleVars>>

delete_ingredient(ingredient_id) ==
    IF validate_token_and_roles({"admin", "manager", "staff"}) # 200
    THEN HTTPException("delete_ingredient", validate_token_and_roles({"admin", "manager", "staff"}))
    ELSE
    /\ Idle
    /\ IF ingredient_id \notin DOMAIN Ingredients
       THEN /\ resp' = [op |-> "delete_ingredient", code |-> 404]
            /\ UNCHANGED Ingredients
       ELSE /\ Ingredients' = [i \in DOMAIN Ingredients \ {ingredient_id} |-> Ingredients[i]]
            /\ resp' = [op |-> "delete_ingredient", code |-> 200, id |-> ingredient_id]
    /\ UNCHANGED <<IngredientBatches, nextIngredientID, nextBatchID, today,
                   dbCaseInsensitive, auth, sales, calls, saleVars>>

\* The handlers that only read the Ingredients table
ReadIngredients(op, body) ==
    IF validate_token_and_roles({"admin", "manager", "staff", "cashier"}) # 200
    THEN HTTPException(op, validate_token_and_roles({"admin", "manager", "staff", "cashier"}))
    ELSE
    /\ Idle
    /\ resp' = [op |-> op, code |-> 200, body |-> body]
    /\ UNCHANGED <<Ingredients, IngredientBatches, nextIngredientID, nextBatchID,
                   today, dbCaseInsensitive, auth, sales, calls, saleVars>>

\* SELECT IngredientID, IngredientName, Amount, Measurement, ..., Status FROM Ingredients
get_all_ingredients == ReadIngredients("get_all_ingredients", Ingredients)

\* SELECT COUNT(*) as count FROM Ingredients
get_ingredient_count ==
    ReadIngredients("get_ingredient_count",
        [count |-> Cardinality(DOMAIN Ingredients)])

\* SUM(CASE WHEN Status = ... THEN 1 ELSE 0 END), once per status
get_stock_status_counts ==
    LET count(status) ==
            Cardinality({i \in DOMAIN Ingredients : Ingredients[i].Status = status})
    IN ReadIngredients("get_stock_status_counts",
           [available |-> count("Available"), low_stock |-> count("Low Stock"),
            not_available |-> count("Not Available")])

\* SELECT IngredientName as name, Amount as inStock, Status as status
\* FROM Ingredients WHERE Status = 'Low Stock'
get_low_stock_alerts ==
    ReadIngredients("get_low_stock_alerts",
        [i \in {j \in DOMAIN Ingredients : Ingredients[j].Status = "Low Stock"} |->
            [name |-> Ingredients[i].IngredientName,
             inStock |-> Ingredients[i].Amount,
             status |-> Ingredients[i].Status]])

-----------------------------------------------------------------------------
(* Batch handlers *)

\* create_batch: the status of the inserted row
create_batch_status(quantity, expiration_date) ==
    IF expiration_date <= today THEN "Expired"
    ELSE IF quantity = 0 THEN "Used"
    ELSE "Available"

\* update_batch: the status of the re-fetched row
update_batch_status(row) ==
    IF row.ExpirationDate <= today THEN "Expired"
    ELSE IF row.Quantity = 0 THEN "Used"
    ELSE "Available"

\* get_all_batches / get_batches_for_ingredient: the status of a row read
read_batch_status(row) ==
    IF row.Quantity = 0 THEN "Used"
    ELSE IF row.ExpirationDate < today THEN "Expired"
    ELSE row.Status

\* UPDATE Ingredients SET Amount = Amount + d WHERE IngredientID = id
AddAmount_RefreshesStatus(table, id, d) ==
    [i \in DOMAIN table |->
        IF i = id
        THEN [table[i] EXCEPT !.Amount = @ + d,
                              !.Status = get_status(table[i].Amount + d,
                                                    table[i].Measurement)]
        ELSE table[i]]

\* ... SET Amount = ? with a value computed from the stored Amount
AddAmount_FromStored(table, id, d) ==
    [i \in DOMAIN table |->
        IF i = id THEN [table[i] EXCEPT !.Amount = Ingredients[i].Amount + d]
        ELSE table[i]]

AddAmount(table, id, d) ==
    [i \in DOMAIN table |->
        IF i = id THEN [table[i] EXCEPT !.Amount = @ + d] ELSE table[i]]

\* raise HTTPException(status_code=404) after the INSERT and before the
\* commit; the connection is closed with the INSERT uncommitted
create_batch_not_found_Committed(withBatch) == withBatch

create_batch_not_found(withBatch) == Visible(IngredientBatches, withBatch)

\* IngredientBatches.IngredientID is not checked by the store: the handler
\* looks the ingredient up itself after the INSERT.
create_batch(ingredient_id, quantity, expiration_date) ==
    IF validate_token_and_roles({"admin", "manager", "staff"}) # 200
    THEN HTTPException("create_batch", validate_token_and_roles({"admin", "manager", "staff"}))
    ELSE
    /\ Idle
    /\ nextBatchID <= MaxBatches
    /\ LET status == create_batch_status(quantity, expiration_date)
           inserted == [IngredientID |-> ingredient_id, Quantity |-> quantity,
                        ExpirationDate |-> expiration_date, Status |-> status]
           withBatch == (nextBatchID :> inserted) @@ IngredientBatches
       IN /\ nextBatchID' = nextBatchID + 1
          /\ IF ingredient_id \notin DOMAIN Ingredients
             THEN /\ IngredientBatches' = create_batch_not_found(withBatch)
                  /\ UNCHANGED Ingredients
                  /\ resp' = [op |-> "create_batch", code |-> 404]
             ELSE /\ IngredientBatches' = withBatch
                  /\ Ingredients' = AddAmount(Ingredients, ingredient_id, quantity)
                  /\ resp' = [op |-> "create_batch", code |-> 200,
                              id |-> nextBatchID, status |-> inserted.Status,
                              day |-> today]
    /\ UNCHANGED <<nextIngredientID, today, dbCaseInsensitive, auth, sales, calls, saleVars>>

\* diff = float(data.quantity) - old_quantity
diff(quantity, old_quantity) == quantity - old_quantity

\* data is the request body with the unset fields left out:
\* data.dict(exclude_unset=True).  validate, SELECT Quantity, IngredientID of
\* the batch (404), the SET list (400 when empty), or go on
update_batch(r, batch_id, data) ==
    IF validate_token_and_roles({"admin", "manager", "staff"}) # 200
    THEN HTTPException("update_batch", validate_token_and_roles({"admin", "manager", "staff"}))
    ELSE
    /\ Idle
    /\ calls[r] = NoCall
    /\ IF batch_id \notin DOMAIN IngredientBatches
       THEN /\ resp' = [op |-> "update_batch", code |-> 404]
            /\ UNCHANGED calls
       ELSE IF DOMAIN data = {}
       THEN /\ resp' = [op |-> "update_batch", code |-> 400]
            /\ UNCHANGED calls
       ELSE /\ calls' = [calls EXCEPT ![r] =
                  [op |-> "update_batch", batch_id |-> batch_id, data |-> data,
                   old_quantity |-> IngredientBatches[batch_id].Quantity,
                   ingredient_id |-> IngredientBatches[batch_id].IngredientID]]
            /\ resp' = [op |-> "update_batch", code |-> 0]
    /\ UNCHANGED <<Ingredients, IngredientBatches, nextIngredientID, nextBatchID,
                   today, dbCaseInsensitive, auth, sales, saleVars>>

\* return IngredientBatchOut(...) of a handler: ingredient_name is a required
\* field, and a call that leaves it out raises instead of answering
IngredientBatchOut(with_ingredient_name) ==
    IF with_ingredient_name THEN 200 ELSE 500

\* UPDATE IngredientBatches SET ..., UPDATE Ingredients SET Amount = Amount +
\* diff, SELECT the row again, the status rule, UPDATE ... SET Status, commit,
\* and the answer, which is built without ingredient_name
update_batch_write(r) ==
    /\ calls[r].op = "update_batch"
    /\ LET batch_id == calls[r].batch_id
           data == calls[r].data
           old_quantity == calls[r].old_quantity
           ingredient_id == calls[r].ingredient_id
           stored == IngredientBatches[batch_id]
           updated == [stored EXCEPT
               !.Quantity = IF "quantity" \in DOMAIN data
                            THEN data["quantity"] ELSE @,
               !.ExpirationDate = IF "expiration_date" \in DOMAIN data
                                  THEN data["expiration_date"] ELSE @]
           new_status == update_batch_status(updated)
       IN /\ Ingredients' =
               IF "quantity" \in DOMAIN data
               THEN AddAmount(Ingredients, ingredient_id,
                              diff(data["quantity"], old_quantity))
               ELSE Ingredients
          /\ IngredientBatches' =
               [IngredientBatches EXCEPT
                   ![batch_id] = [updated EXCEPT !.Status = new_status]]
          /\ resp' = [op |-> "update_batch", code |-> IngredientBatchOut(FALSE),
                      id |-> batch_id, stored |-> new_status,
                      was |-> stored.Status, day |-> today]
    /\ calls' = [calls EXCEPT ![r] = NoCall]
    /\ UNCHANGED <<nextIngredientID, nextBatchID, today, dbCaseInsensitive,
                   auth, sales, saleVars>>

\* if new_status != row.Status: UPDATE IngredientBatches SET Status = ?
status_changed_Always(row) == TRUE

status_changed(row) == read_batch_status(row) # row.Status

\* What a later read compares the answer of the read before it with
LastRead(answer) ==
    IF answer.code \in {200, 500} /\ "rows" \in DOMAIN answer
    THEN [op |-> answer.op, code |-> answer.code, day |-> answer.day,
          selected |-> answer.selected, rows |-> answer.rows]
    ELSE NoResp

\* The two list handlers: validate, SELECT the rows
ReadBatches(r, op, selected) ==
    IF validate_token_and_roles({"admin", "manager", "staff"}) # 200
    THEN HTTPException(op, validate_token_and_roles({"admin", "manager", "staff"}))
    ELSE
    /\ Idle
    /\ calls[r] = NoCall
    /\ calls' = [calls EXCEPT ![r] =
          [op |-> op, rows |-> [b \in selected |-> IngredientBatches[b]],
           last |-> LastRead(resp)]]
    /\ resp' = [op |-> op, code |-> 0]
    /\ UNCHANGED <<Ingredients, IngredientBatches, nextIngredientID, nextBatchID,
                   today, dbCaseInsensitive, auth, sales, saleVars>>

\* The loop over the rows selected: new_status of each row as it was read,
\* one UPDATE ... SET Status per row whose status changed, commit, and the
\* answer; a handler that raises building its answer returns no rows
ReadBatchesLoop(r, op, with_ingredient_name) ==
    /\ calls[r].op = op
    /\ LET rows == calls[r].rows
           writes == {b \in DOMAIN rows : status_changed(rows[b])}
           code == IF DOMAIN rows = {} THEN 200
                   ELSE IngredientBatchOut(with_ingredient_name)
       IN /\ IngredientBatches' =
               [b \in DOMAIN IngredientBatches |->
                   IF b \in writes
                   THEN [IngredientBatches[b] EXCEPT
                            !.Status = read_batch_status(rows[b])]
                   ELSE IngredientBatches[b]]
          /\ resp' = [op |-> op, code |-> code, day |-> today,
                      selected |-> DOMAIN rows,
                      rows |-> IF code = 200
                               THEN [b \in DOMAIN rows |->
                                        [Quantity |-> rows[b].Quantity,
                                         ExpirationDate |-> rows[b].ExpirationDate,
                                         Status |-> read_batch_status(rows[b])]]
                               ELSE <<>>,
                      writes |-> writes,
                      last |-> calls[r].last]
    /\ calls' = [calls EXCEPT ![r] = NoCall]
    /\ UNCHANGED <<Ingredients, nextIngredientID, nextBatchID, today,
                   dbCaseInsensitive, auth, sales, saleVars>>

\* FROM IngredientBatches ib JOIN Ingredients i ON ib.IngredientID = i.IngredientID
get_all_batches(r) ==
    ReadBatches(r, "get_all_batches",
        {b \in DOMAIN IngredientBatches :
            IngredientBatches[b].IngredientID \in DOMAIN Ingredients})

\* ... ingredient_name=row.IngredientName ...
get_all_batches_return(r) ==
    ReadBatchesLoop(r, "get_all_batches", TRUE)

\* FROM IngredientBatches WHERE IngredientID = ?
get_batches_for_ingredient(r, ingredient_id) ==
    ReadBatches(r, "get_batches_for_ingredient",
        {b \in DOMAIN IngredientBatches :
            IngredientBatches[b].IngredientID = ingredient_id})

\* the IngredientBatchOut of each row is built without ingredient_name
get_batches_for_ingredient_return(r) ==
    ReadBatchesLoop(r, "get_batches_for_ingredient", FALSE)

\* The date changes
Tick ==
    /\ Idle
    /\ today < MaxDay
    /\ today' = today + 1
    /\ UNCHANGED <<Ingredients, IngredientBatches, nextIngredientID, nextBatchID,
                   dbCaseInsensitive, auth, sales, calls, saleVars, resp>>

\* The next request carries a token of which the identity service makes
\* answer; a request consults the service once, before its first statement
SetToken(answer) ==
    /\ Idle
    /\ auth' = answer
    /\ UNCHANGED <<Ingredients, IngredientBatches, nextIngredientID, nextBatchID,
                   today, dbCaseInsensitive, sales, calls, saleVars, resp>>

-----------------------------------------------------------------------------
(* The catalogue tables, which this service only reads *)

Latte == <<"L","a","t","t","e">>
Mocha == <<"M","o","c","h","a">>
Tea   == <<"T","e","a">>

\* ProductID -> ProductName
Products == (1 :> Latte) @@ (2 :> Mocha) @@ (3 :> Tea)

\* RecipeID -> ProductID (Tea has no recipe)
Recipes == (1 :> 1) @@ (2 :> 2)

\* Rows of RecipeIngredients, Amount being the per-unit amount in tenths.
\* Latte takes 200.0 of ingredient 1, 0.5 of ingredient 2 and 1.0 of
\* ingredient 3, Mocha 30.0 of ingredient 1.
RecipeIngredients ==
    << [RecipeID |-> 1, IngredientID |-> 1, Amount |-> 2000],
       [RecipeID |-> 1, IngredientID |-> 2, Amount |-> 5],
       [RecipeID |-> 1, IngredientID |-> 3, Amount |-> 10],
       [RecipeID |-> 2, IngredientID |-> 1, Amount |-> 300] >>

\* SELECT r.RecipeID FROM Recipes r JOIN Products p ON r.ProductID = p.ProductID
\* WHERE p.ProductName = ?
RecipesFor(name) ==
    {r \in DOMAIN Recipes :
        /\ Recipes[r] \in DOMAIN Products
        /\ SqlEq(Products[Recipes[r]], name)}

\* SELECT IngredientID, Amount, Measurement FROM RecipeIngredients WHERE RecipeID = ?
RecipeIngredientsOf(r) == SelectSeq(RecipeIngredients, LAMBDA row : row.RecipeID = r)

-----------------------------------------------------------------------------
(* deduct-from-sale, one statement per step *)

\* The CASE expression of the bulk status UPDATE
bulk_status(Amount, Measurement) ==
    IF Amount <= 0 THEN "Not Available"
    ELSE IF \/ SqlEq(Measurement, <<"g">>) /\ Amount <= 500
            \/ SqlEq(Measurement, <<"k","g">>) /\ Amount <= 5
            \/ SqlEq(Measurement, <<"m","l">>) /\ Amount <= 1000
            \/ SqlEq(Measurement, <<"l">>) /\ Amount <= 5
            \/ /\ ~ \E u \in {<<"g">>, <<"k","g">>, <<"m","l">>, <<"l">>} :
                       SqlEq(Measurement, u)
               /\ Amount <= 10
         THEN "Low Stock"
    ELSE "Available"

\* total_to_deduct = recipe_ingredient.Amount * item.quantity
total_to_deduct_IgnoresQuantity(recipe_ingredient, cart_item) ==
    recipe_ingredient.Amount

total_to_deduct(recipe_ingredient, cart_item) ==
    recipe_ingredient.Amount * cart_item.quantity

\* await conn.rollback(): the table after the statements are undone
rollback_KeepsWrites(committed, working) == working

rollback(committed, working) == committed

SaleIdle ==
    /\ pc' = "idle" /\ sale_data' = <<>> /\ item' = 0 /\ recipe_id' = 0
    /\ recipe_ingredients' = <<>> /\ conn' = <<>> /\ nUpdates' = 0
    /\ nSkipped' = 0 /\ before' = <<>>

\* The request arrives and the connection is opened
deduct_begin(cartItems) ==
    IF validate_token_and_roles({"admin", "cashier", "manager"}) # 200
    THEN HTTPException("deduct_ingredients_from_sale", validate_token_and_roles({"admin", "cashier", "manager"}))
    ELSE
    /\ Idle
    /\ \A i \in DOMAIN Ingredients : Ingredients[i].Amount >= -MaxDebt
    /\ pc' = "lookup"
    /\ sale_data' = cartItems
    /\ item' = 1
    /\ recipe_id' = 0
    /\ recipe_ingredients' = <<>>
    /\ conn' = Ingredients
    /\ nUpdates' = 0
    /\ nSkipped' = 0
    /\ before' = Ingredients
    /\ resp' = [op |-> "deduct_ingredients_from_sale", code |-> 0]
    /\ UNCHANGED <<Ingredients, IngredientBatches, nextIngredientID, nextBatchID,
                   today, dbCaseInsensitive, auth, sales, calls>>

\* for item in sale_data.cartItems: find the recipe, or skip the item
deduct_lookup_BreaksOnSkip ==
    /\ pc = "lookup"
    /\ IF item > Len(sale_data)
       THEN /\ pc' = "status"
            /\ UNCHANGED <<item, recipe_id, nSkipped>>
       ELSE IF RecipesFor(sale_data[item].name) = {}
       THEN /\ pc' = "status"
            /\ nSkipped' = nSkipped + 1
            /\ UNCHANGED <<item, recipe_id>>
       ELSE /\ \E r \in RecipesFor(sale_data[item].name) : recipe_id' = r
            /\ pc' = "fetch"
            /\ UNCHANGED <<item, nSkipped>>
    /\ UNCHANGED <<Ingredients, IngredientBatches, nextIngredientID, nextBatchID,
                   today, dbCaseInsensitive, auth, sales, calls, sale_data, recipe_ingredients, conn,
                   nUpdates, before, resp>>

deduct_lookup ==
    /\ pc = "lookup"
    /\ IF item > Len(sale_data)
       THEN /\ pc' = "status"
            /\ UNCHANGED <<item, recipe_id, nSkipped>>
       ELSE IF RecipesFor(sale_data[item].name) = {}
       THEN /\ item' = item + 1
            /\ nSkipped' = nSkipped + 1
            /\ UNCHANGED <<pc, recipe_id>>
       ELSE /\ \E r \in RecipesFor(sale_data[item].name) : recipe_id' = r
            /\ pc' = "fetch"
            /\ UNCHANGED <<item, nSkipped>>
    /\ UNCHANGED <<Ingredients, IngredientBatches, nextIngredientID, nextBatchID,
                   today, dbCaseInsensitive, auth, sales, calls, sale_data, recipe_ingredients, conn,
                   nUpdates, before, resp>>

\* get all ingredients required for the recipe
deduct_fetch ==
    /\ pc = "fetch"
    /\ recipe_ingredients' = RecipeIngredientsOf(recipe_id)
    /\ pc' = "deduct"
    /\ UNCHANGED <<Ingredients, IngredientBatches, nextIngredientID, nextBatchID,
                   today, dbCaseInsensitive, auth, sales, calls, sale_data, item, recipe_id, conn,
                   nUpdates, nSkipped, before, resp>>

\* UPDATE Ingredients SET Amount = Amount - ? WHERE IngredientID = ?
deduct_update ==
    /\ pc = "deduct"
    /\ IF recipe_ingredients = <<>>
       THEN /\ item' = item + 1
            /\ pc' = "lookup"
            /\ UNCHANGED <<recipe_ingredients, conn, nUpdates, Ingredients>>
       ELSE LET recipe_ingredient == Head(recipe_ingredients)
                d == total_to_deduct(recipe_ingredient, sale_data[item])
            IN /\ conn' = AddAmount(conn, recipe_ingredient.IngredientID, -d)
               /\ Ingredients' = Visible(Ingredients, conn')
               /\ recipe_ingredients' = Tail(recipe_ingredients)
               /\ nUpdates' = nUpdates + 1
               /\ UNCHANGED <<item, pc>>
    /\ UNCHANGED <<IngredientBatches, nextIngredientID, nextBatchID, today,
                   dbCaseInsensitive, auth, sales, calls, sale_data, recipe_id, nSkipped, before, resp>>

\* after all deductions, update the status of all ingredients at once
deduct_status ==
    /\ pc = "status"
    /\ conn' = [i \in DOMAIN conn |->
                   [conn[i] EXCEPT !.Status = bulk_status(conn[i].Amount,
                                                          conn[i].Measurement)]]
    /\ Ingredients' = Visible(Ingredients, conn')
    /\ pc' = "commit"
    /\ UNCHANGED <<IngredientBatches, nextIngredientID, nextBatchID, today,
                   dbCaseInsensitive, auth, sales, calls, sale_data, item, recipe_id,
                   recipe_ingredients, nUpdates, nSkipped, before, resp>>

\* await conn.commit(); return {"message": "Inventory deducted successfully."}
deduct_commit ==
    /\ pc = "commit"
    /\ Ingredients' = conn
    /\ resp' = [op |-> "deduct_ingredients_from_sale", code |-> 200,
                nUpdates |-> nUpdates, nSkipped |-> nSkipped]
    /\ SaleIdle
    /\ UNCHANGED <<IngredientBatches, nextIngredientID, nextBatchID, today,
                   dbCaseInsensitive, auth, sales, calls>>

\* The statement at pc raises: except Exception -> conn.rollback(), 500
deduct_fail ==
    /\ pc \in {"lookup", "fetch", "deduct", "status", "commit"}
    /\ pc = "lookup" => item <= Len(sale_data)
    /\ pc = "deduct" => recipe_ingredients # <<>>
    /\ resp' = [op |-> "deduct_ingredients_from_sale", code |-> 500,
                at |-> pc, nUpdates |-> nUpdates]
    /\ Ingredients' = rollback(Ingredients, conn)
    /\ SaleIdle
    /\ UNCHANGED <<IngredientBatches, nextIngredientID, nextBatchID,
                   today, dbCaseInsensitive, auth, sales, calls>>

-----------------------------------------------------------------------------
(* Concurrent deduct-from-sale requests, each on a connection of its own.  *)
(* The store is taken to execute each UPDATE statement atomically on the   *)
(* rows as they are when the statement runs; what a transaction has        *)
(* changed is kept or undone as a whole at its commit or rollback.         *)

\* The locals of a request that has not arrived
NoSale ==
    [pc |-> "idle", sale_data |-> <<>>, item |-> 0, recipe_id |-> 0,
     recipe_ingredients |-> <<>>, delta |-> <<>>, status |-> <<>>,
     saw |-> FALSE, code |-> 0]

\* The change of Amount that request r has made to row i and not committed
PendingOf(r, i) ==
    IF i \in DOMAIN sales[r].delta THEN sales[r].delta[i] ELSE 0

RECURSIVE PendingOver(_, _)
PendingOver(rs, i) ==
    IF rs = {} THEN 0
    ELSE LET r == CHOOSE x \in rs : TRUE
         IN PendingOf(r, i) + PendingOver(rs \ {r}, i)

\* The rows as a statement finds them
Current ==
    [i \in DOMAIN Ingredients |->
        [Ingredients[i] EXCEPT !.Amount = @ + PendingOver(Requests, i)]]

NoSaleOpen == \A r \in Requests : sales[r].pc = "idle"

sale_begin(r, cartItems) ==
    IF validate_token_and_roles({"admin", "cashier", "manager"}) # 200
    THEN HTTPException("deduct_ingredients_from_sale",
                       validate_token_and_roles({"admin", "cashier", "manager"}))
    ELSE
    /\ Idle
    /\ sales[r].pc = "idle"
    /\ sales' = [sales EXCEPT ![r] =
                    [NoSale EXCEPT !.pc = "lookup", !.sale_data = cartItems,
                                   !.item = 1,
                                   !.delta = [i \in DOMAIN Ingredients |-> 0]]]
    /\ UNCHANGED <<Ingredients, IngredientBatches, nextIngredientID, nextBatchID,
                   today, dbCaseInsensitive, auth, calls, saleVars, resp>>

sale_lookup(r) ==
    /\ sales[r].pc = "lookup"
    /\ LET s == sales[r] IN
       IF s.item > Len(s.sale_data)
       THEN sales' = [sales EXCEPT ![r].pc = "status"]
       ELSE IF RecipesFor(s.sale_data[s.item].name) = {}
       THEN sales' = [sales EXCEPT ![r].item = @ + 1]
       ELSE \E x \in RecipesFor(s.sale_data[s.item].name) :
                sales' = [sales EXCEPT ![r].recipe_id = x, ![r].pc = "fetch"]
    /\ UNCHANGED <<Ingredients, IngredientBatches, nextIngredientID, nextBatchID,
                   today, dbCaseInsensitive, auth, calls, saleVars, resp>>

sale_fetch(r) ==
    /\ sales[r].pc = "fetch"
    /\ sales' = [sales EXCEPT
                    ![r].recipe_ingredients = RecipeIngredientsOf(sales[r].recipe_id),
                    ![r].pc = "deduct"]
    /\ UNCHANGED <<Ingredients, IngredientBatches, nextIngredientID, nextBatchID,
                   today, dbCaseInsensitive, auth, calls, saleVars, resp>>

\* UPDATE Ingredients SET Amount = Amount - ? WHERE IngredientID = ?
sale_update(r) ==
    /\ sales[r].pc = "deduct"
    /\ LET s == sales[r] IN
       IF s.recipe_ingredients = <<>>
       THEN /\ sales' = [sales EXCEPT ![r].item = @ + 1, ![r].pc = "lookup"]
            /\ UNCHANGED Ingredients
       ELSE LET recipe_ingredient == Head(s.recipe_ingredients)
                d == total_to_deduct(recipe_ingredient, s.sale_data[s.item])
                written == AddAmount(Current, recipe_ingredient.IngredientID, -d)
            IN /\ sales' = [sales EXCEPT
                     ![r].delta = [i \in DOMAIN @ |->
                         IF autocommit THEN @[i]
                         ELSE @[i] + written[i].Amount - Current[i].Amount],
                     ![r].recipe_ingredients = Tail(@),
                     ![r].saw = @ \/ \E o \in Requests \ {r} :
                         PendingOf(o, recipe_ingredient.IngredientID) # 0]
               /\ Ingredients' = Visible(Ingredients, written)
    /\ UNCHANGED <<IngredientBatches, nextIngredientID, nextBatchID,
                   today, dbCaseInsensitive, auth, calls, saleVars, resp>>

\* UPDATE Ingredients SET Status = CASE ... END
sale_status(r) ==
    /\ sales[r].pc = "status"
    /\ sales' = [sales EXCEPT
                    ![r].status = [i \in DOMAIN Ingredients |->
                        bulk_status(Current[i].Amount, Current[i].Measurement)],
                    ![r].pc = "commit"]
    /\ UNCHANGED <<Ingredients, IngredientBatches, nextIngredientID, nextBatchID,
                   today, dbCaseInsensitive, auth, calls, saleVars, resp>>

\* await conn.commit(): what the request has changed becomes the stored rows
sale_commit(r) ==
    /\ sales[r].pc = "commit"
    /\ Ingredients' =
         [i \in DOMAIN Ingredients |->
             [Ingredients[i] EXCEPT !.Amount = @ + PendingOf(r, i),
                                    !.Status = sales[r].status[i]]]
    /\ sales' = [sales EXCEPT ![r].pc = "done", ![r].code = 200,
                              ![r].delta = <<>>, ![r].status = <<>>]
    /\ resp' = [op |-> "deduct_ingredients_from_sale", code |-> 200]
    /\ UNCHANGED <<IngredientBatches, nextIngredientID, nextBatchID,
                   today, dbCaseInsensitive, auth, calls, saleVars>>

\* except Exception: await conn.rollback(): what it has changed is undone
sale_fail(r) ==
    /\ sales[r].pc \in {"lookup", "fetch", "deduct", "status", "commit"}
    /\ sales[r].pc = "lookup" => sales[r].item <= Len(sales[r].sale_data)
    /\ sales[r].pc = "deduct" => sales[r].recipe_ingredients # <<>>
    /\ sales' = [sales EXCEPT ![r].pc = "done", ![r].code = 500,
                              ![r].delta = <<>>, ![r].status = <<>>]
    /\ resp' = [op |-> "deduct_ingredients_from_sale", code |-> 500]
    /\ UNCHANGED <<Ingredients, IngredientBatches, nextIngredientID, nextBatchID,
                   today, dbCaseInsensitive, auth, calls, saleVars>>

-----------------------------------------------------------------------------
(* Requests *)

Milk     == <<"M","i","l","k">>
milk     == <<"m","i","l","k">>
MilkPad  == <<"M","i","l","k"," ">>
Sugar    == <<"S","u","g","a","r">>

g_    == <<"g">>
kg_   == <<"k","g">>
ml_   == <<"m","l">>
l_    == <<"l">>
oz_   == <<"o","z">>
G_    == <<"G">>
Kg_   == <<"K","g">>
gPad  == <<"g"," ">>
padg  == <<" ","g">>
none_ == <<>>

IngredientIDs == 1 .. (MaxIngredients + 1)   \* the last one is never handed out
BatchIDs == 1 .. (MaxBatches + 1)
Dates == 1 .. MaxDay

\* The ingredient requests, one at a time
IngredientRequests(names, amounts, units) ==
    \/ \E n \in names, a \in amounts, u \in units :
          Quiet /\ add_ingredient(1, n, a, u)
    \/ add_ingredient_insert(1)
    \/ \E i \in IngredientIDs, n \in names, a \in amounts, u \in units :
          Quiet /\ update_ingredient(1, i, n, a, u)
    \/ update_ingredient_write(1)
    \/ \E i \in IngredientIDs : Quiet /\ delete_ingredient(i)

\* Request bodies of update_batch: any subset of the fields set
BatchUpdates(quantities, dates) ==
    UNION {[fields -> quantities \cup dates] : fields \in SUBSET {"quantity", "expiration_date", "notes"}}

BatchData(quantities, dates) ==
    {data \in BatchUpdates(quantities, dates) :
        /\ "quantity" \in DOMAIN data => data["quantity"] \in quantities
        /\ "expiration_date" \in DOMAIN data => data["expiration_date"] \in dates
        /\ "notes" \in DOMAIN data => data["notes"] = CHOOSE q \in quantities \cup dates : TRUE}

\* The two list requests, one at a time
BatchReads(ingredients) ==
    \/ Quiet /\ get_all_batches(1)
    \/ get_all_batches_return(1)
    \/ \E i \in ingredients : Quiet /\ get_batches_for_ingredient(1, i)
    \/ get_batches_for_ingredient_return(1)

\* SoldItem
CartItem(name, quantity) == [name |-> name, quantity |-> quantity]

\* DeductSaleRequest.cartItems over the given items
Carts(items) == UNION {[1 .. n -> items] : n \in 0 .. MaxCart}

SaleRequests(items) ==
    \/ \E cartItems \in Carts(items) : Quiet /\ deduct_begin(cartItems)
    \/ deduct_lookup
    \/ deduct_fetch
    \/ deduct_update
    \/ deduct_status
    \/ deduct_commit
    \/ deduct_fail

-----------------------------------------------------------------------------
(* Specifications *)

\* The store is empty when the service is first started
Init ==
    /\ Ingredients = <<>>
    /\ IngredientBatches = <<>>
    /\ nextIngredientID = 1
    /\ nextBatchID = 1
    /\ today = 1
    /\ dbCaseInsensitive = TRUE
    /\ auth = [kind |-> "ok", userRole |-> "admin"]
    /\ sales = [r \in Requests |-> NoSale]
    /\ calls = [r \in Requests |-> NoCall]
    /\ pc = "idle"
    /\ sale_data = <<>>
    /\ item = 0
    /\ recipe_id = 0
    /\ recipe_ingredients = <<>>
    /\ conn = <<>>
    /\ nUpdates = 0
    /\ nSkipped = 0
    /\ before = <<>>
    /\ resp = NoResp

\* Ingredient requests over every unit and the amounts around each threshold
NextStatus ==
    \/ \E a \in {-10, 0, 1, 5, 6, 10, 11, 500, 501, 1000, 1001},
          u \in {g_, kg_, ml_, l_, oz_, none_, G_, Kg_} :
          \/ Quiet /\ add_ingredient(1, Milk, a, u)
          \/ \E i \in IngredientIDs : Quiet /\ update_ingredient(1, i, Milk, a, u)
    \/ add_ingredient_insert(1)
    \/ update_ingredient_write(1)
    \/ \E i \in IngredientIDs : Quiet /\ delete_ingredient(i)
SpecStatus == Init /\ [][NextStatus]_vars

\* Ingredient requests over names that differ by case and by trailing blanks
NextNames ==
    IngredientRequests({Milk, milk, MilkPad, Sugar}, {0, 600}, {g_})
SpecNames == Init /\ [][NextNames]_vars

\* Batch requests, one at a time, with the ingredient requests that create
\* and remove parents
NextBatch ==
    \/ Quiet /\ add_ingredient(1, Milk, 70, g_)
    \/ add_ingredient_insert(1)
    \/ Quiet /\ delete_ingredient(1)
    \/ \E q \in {0, 100} : Quiet /\ create_batch(1, q, 2)
    \/ \E b \in BatchIDs, data \in BatchData({0, 150}, {3}) :
          Quiet /\ update_batch(1, b, data)
    \/ update_batch_write(1)
    \/ BatchReads({1})
    \/ Quiet /\ Tick
SpecBatch == Init /\ [][NextBatch]_vars

\* Batch updates that overlap: each of two requests runs its statements in
\* order, and the statements of the two interleave
NextOverlap ==
    \/ Quiet /\ add_ingredient(1, Milk, 70, g_)
    \/ add_ingredient_insert(1)
    \/ Quiet /\ create_batch(1, 100, 2)
    \/ \E r \in Requests, b \in BatchIDs, q \in {130, 150} :
          /\ \A i \in DOMAIN Ingredients : Ingredients[i].Amount \in 0 .. MaxAmount
          /\ update_batch(r, b, [quantity |-> q])
    \/ \E r \in Requests : update_batch_write(r)
SpecOverlap == Init /\ [][NextOverlap]_vars

\* Sales, with the requests that stock the ingredients
NextSale ==
    \/ \E u \in {g_, gPad} : Quiet /\ add_ingredient(1, Milk, 500, u)
    \/ Quiet /\ add_ingredient(1, Milk, 10000, g_)
    \/ Quiet /\ add_ingredient(1, Sugar, 10, kg_)
    \/ Idle /\ add_ingredient_insert(1)
    \/ Quiet /\ IngredientBatches = <<>> /\ create_batch(1, 100, MaxDay)
    \/ SaleRequests({CartItem(Latte, 1), CartItem(Latte, 3), CartItem(Tea, 1)})
SpecSale == Init /\ [][NextSale]_vars

\* Ingredient and batch requests, among them the ones that are refused
Next ==
    \/ IngredientRequests({Milk, milk, Sugar}, {0}, {g_})
    \/ \E i \in {1, MaxIngredients + 1} : Quiet /\ create_batch(i, 100, MaxDay)
    \/ \E b \in {1, MaxBatches + 1}, data \in BatchData({0}, {MaxDay}) :
          Quiet /\ update_batch(1, b, data)
    \/ update_batch_write(1)
    \/ BatchReads({1})
Spec == Init /\ [][Next]_vars

\* Batch reads over three days, the service having been started on day 0
InitRead ==
    /\ Ingredients = <<>>
    /\ IngredientBatches = <<>>
    /\ nextIngredientID = 1
    /\ nextBatchID = 1
    /\ today = 0
    /\ dbCaseInsensitive = TRUE
    /\ auth = [kind |-> "ok", userRole |-> "admin"]
    /\ sales = [r \in Requests |-> NoSale]
    /\ calls = [r \in Requests |-> NoCall]
    /\ pc = "idle"
    /\ sale_data = <<>>
    /\ item = 0
    /\ recipe_id = 0
    /\ recipe_ingredients = <<>>
    /\ conn = <<>>
    /\ nUpdates = 0
    /\ nSkipped = 0
    /\ before = <<>>
    /\ resp = NoResp

NextRead ==
    \/ Quiet /\ add_ingredient(1, Milk, 70, g_)
    \/ add_ingredient_insert(1)
    \/ Quiet /\ delete_ingredient(1)
    \/ \E i \in {1, 2}, q \in {0, 100} : Quiet /\ create_batch(i, q, 1)
    \/ \E b \in BatchIDs : Quiet /\ update_batch(1, b, [quantity |-> 0])
    \/ update_batch_write(1)
    \/ BatchReads({1, 2})
    \/ Quiet /\ Tick
SpecRead == InitRead /\ [][NextRead]_vars

\* Restocking by batches between ingredient updates and sales
NextStock ==
    \/ Quiet /\ add_ingredient(1, Milk, 0, g_)
    \/ Idle /\ add_ingredient_insert(1)
    \/ Quiet /\ update_ingredient(1, 1, Milk, 600, g_)
    \/ Idle /\ update_ingredient_write(1)
    \/ Quiet /\ create_batch(1, 100, MaxDay)
    \/ \E b \in BatchIDs, q \in {0, 600} :
          Quiet /\ update_batch(1, b, [quantity |-> q])
    \/ Idle /\ update_batch_write(1)
    \/ Quiet /\ get_all_ingredients
    \/ SaleRequests({CartItem(Mocha, 1)})
SpecStock == Init /\ [][NextStock]_vars

\* Two sales at once over a stocked ingredient
ConcurrentSaleRequests(items) ==
    \E r \in Requests :
        \/ \E cartItems \in Carts(items) : Quiet /\ sale_begin(r, cartItems)
        \/ sale_lookup(r)
        \/ sale_fetch(r)
        \/ sale_update(r)
        \/ sale_status(r)
        \/ sale_commit(r)
        \/ sale_fail(r)

NextConcurrent ==
    \/ Quiet /\ NoSaleOpen /\ add_ingredient(1, Milk, 5000, g_)
    \/ add_ingredient_insert(1)
    \/ ConcurrentSaleRequests({CartItem(Mocha, 1), CartItem(Mocha, 2)})
SpecConcurrent == Init /\ [][NextConcurrent]_vars

\* Every operation under every answer of the identity service
Roles == {"admin", "manager", "staff", "cashier", "customer"}

Answers ==
    {[kind |-> "ok", userRole |-> r] : r \in Roles}
        \cup {[kind |-> "HTTPStatusError", status_code |-> 401],
              [kind |-> "RequestError"]}

NextAuth ==
    \/ \E answer \in Answers : Quiet /\ SetToken(answer)
    \/ Quiet /\ get_all_ingredients
    \/ Quiet /\ get_ingredient_count
    \/ Quiet /\ get_stock_status_counts
    \/ Quiet /\ get_low_stock_alerts
    \/ Quiet /\ add_ingredient(1, Milk, 500, g_)
    \/ Idle /\ add_ingredient_insert(1)
    \/ Quiet /\ update_ingredient(1, 1, Milk, 2000, g_)
    \/ Idle /\ update_ingredient_write(1)
    \/ Quiet /\ delete_ingredient(1)
    \/ Quiet /\ IngredientBatches = <<>> /\ create_batch(1, 100, MaxDay)
    \/ Quiet /\ update_batch(1, 1, [quantity |-> 0])
    \/ Idle /\ update_batch_write(1)
    \/ BatchReads({1})
    \/ SaleRequests({CartItem(Latte, 1)})
SpecAuth == Init /\ [][NextAuth]_vars

-----------------------------------------------------------------------------
(* Properties of deduct-from-sale *)

DeductOp == "deduct_ingredients_from_sale"

\* The sum of f[x] over the indices of the sequence f
RECURSIVE SumSeq(_)
SumSeq(f) == IF f = <<>> THEN 0 ELSE f[Len(f)] + SumSeq(SubSeq(f, 1, Len(f) - 1))

\* What one unit of the product takes of ingredient i: the per-unit amounts of
\* the RecipeIngredients rows of its recipe that refer to i
PerUnit(name, i) ==
    SumSeq([k \in DOMAIN RecipeIngredients |->
        IF /\ RecipeIngredients[k].RecipeID \in RecipesFor(name)
           /\ RecipeIngredients[k].IngredientID = i
        THEN RecipeIngredients[k].Amount ELSE 0])

\* What a cart takes of ingredient i
Deducted(cart, i) ==
    SumSeq([k \in DOMAIN cart |-> PerUnit(cart[k].name, i) * cart[k].quantity])

\* The cart items that resolve to a recipe
Resolved(cart) == SelectSeq(cart, LAMBDA it : RecipesFor(it.name) # {})

\* C1: when a statement of a deduct-from-sale request fails (the recipe
\* lookup, the recipe-ingredient lookup, an Amount update, the bulk status
\* update or the commit), the Ingredients table after the request is the
\* table before it: no deduction is observable.
C1_FailureRollsBackAll ==
    [][(pc # "idle" /\ pc' = "idle" /\ resp'.code = 500) =>
          Ingredients' = before]_vars

\* A request failed at the commit after the deductions of two cart items
C1_Witness ==
    /\ resp.op = DeductOp /\ resp.code = 500
    /\ resp.at = "commit" /\ resp.nUpdates >= 4
    /\ \E i \in DOMAIN Ingredients : Ingredients[i].Amount > 0

\* C2: a successful deduct-from-sale request leaves every ingredient with its
\* Amount before the request minus the sum, over the cart items that resolve
\* to a recipe and the recipe's rows for that ingredient, of per-unit amount
\* times quantity, unclamped; it adds and removes no ingredient.
C2_AmountsAfterSale ==
    [][(pc = "commit" /\ pc' = "idle" /\ resp'.code = 200) =>
          /\ DOMAIN Ingredients' = DOMAIN before
          /\ \A i \in DOMAIN before :
                Ingredients'[i].Amount = before[i].Amount - Deducted(sale_data, i)]_vars

\* A sale was committed that left an Amount negative
C2_Witness ==
    /\ resp.op = DeductOp /\ resp.code = 200 /\ resp.nUpdates >= 3
    /\ \E i \in DOMAIN Ingredients : Ingredients[i].Amount < 0

\* C3: a cart item without a recipe is skipped: whenever the loop is about to
\* process item k, and when it is over, the transaction's Amounts are those
\* before the request minus what the resolvable items among the ones passed
\* take; skipped items take nothing and do not stop the loop.
C3_SkipIsNoOp ==
    pc \in {"lookup", "status", "commit"} =>
        LET passed == SubSeq(sale_data, 1, item - 1) IN
        /\ pc \in {"status", "commit"} => passed = sale_data
        /\ nSkipped = Len(passed) - Len(Resolved(passed))
        /\ \A i \in DOMAIN conn :
              conn[i].Amount = before[i].Amount - Deducted(Resolved(passed), i)

\* A sale was acknowledged that skipped one item and deducted another
C3_Witness ==
    /\ resp.op = DeductOp /\ resp.code = 200
    /\ resp.nSkipped = 1 /\ resp.nUpdates = 3
    /\ Ingredients # <<>>

\* C4 as claimed: in the state a successful deduct-from-sale request commits,
\* every ingredient's Status is the threshold rule of its Amount and unit.
C4_StatusAfterSale ==
    (resp.op = DeductOp /\ resp.code = 200) =>
        \A i \in DOMAIN Ingredients :
            Ingredients[i].Status =
                get_status(Ingredients[i].Amount, Ingredients[i].Measurement)

\* C12 as claimed: the Status the bulk pass at the end of deduct-from-sale
\* assigns to an ingredient is the Status get_status returns for the same
\* amount and unit, whatever the letter case of the unit and whatever blanks
\* it begins or ends with.
C12_BulkPassIsGetStatus ==
    [][(pc = "status" /\ pc' = "commit") =>
          \A i \in DOMAIN conn :
              conn'[i].Status = get_status(conn[i].Amount, conn[i].Measurement)]_vars

-----------------------------------------------------------------------------
(* Properties of the ingredient handlers *)

\* The threshold table of the specification, in tenths; the unit is matched
\* without regard to letter case
RuleThreshold(unit) ==
    IF lower(unit) = g_ THEN 500
    ELSE IF lower(unit) = kg_ THEN 5
    ELSE IF lower(unit) = ml_ THEN 1000
    ELSE IF lower(unit) = l_ THEN 5
    ELSE 10

ThresholdRule(amount, unit) ==
    IF amount <= 0 THEN "Not Available"
    ELSE IF amount <= RuleThreshold(unit) THEN "Low Stock"
    ELSE "Available"

\* C5: the Status that add_ingredient and update_ingredient store and return
\* is the threshold rule of the submitted amount and unit: 'Not Available'
\* up to 0, 'Low Stock' up to and including the unit's threshold,
\* 'Available' above it.
C5_StatusOnWrite ==
    (resp.op \in {"add_ingredient", "update_ingredient"} /\ resp.code \in {200, 201}) =>
        /\ resp.id \in DOMAIN Ingredients
        /\ Ingredients[resp.id] = resp.row
        /\ resp.row.Status = ThresholdRule(resp.row.Amount, resp.row.Measurement)

\* An update stored a kilogram amount that sits exactly on its threshold
C5_Witness ==
    /\ resp.op = "update_ingredient" /\ resp.code = 200
    /\ resp.row.Amount = 5 /\ resp.row.Measurement = kg_
    /\ Ingredients[resp.id].Status = "Low Stock"

\* C10: no two stored ingredients have names equal up to letter case; a 409
\* of add_ingredient or update_ingredient names an ingredient (for the
\* update, another one than the ingredient updated) whose name the store
\* takes for equal, so an ingredient's own name never blocks its update.
C10_NamesUnique ==
    /\ \A i, j \in DOMAIN Ingredients :
          i # j => lower(Ingredients[i].IngredientName)
                      # lower(Ingredients[j].IngredientName)
    /\ (resp.op = "add_ingredient" /\ resp.code = 409) =>
          \E i \in DOMAIN Ingredients :
              lower(RTrim(Ingredients[i].IngredientName)) = lower(RTrim(resp.name))
    /\ (resp.op = "update_ingredient" /\ resp.code = 409) =>
          \E i \in DOMAIN Ingredients \ {resp.id} :
              lower(RTrim(Ingredients[i].IngredientName)) = lower(RTrim(resp.name))

\* 'milk' was refused while 'Milk' is stored beside another ingredient
C10_Witness ==
    /\ resp.op = "add_ingredient" /\ resp.code = 409 /\ resp.name = milk
    /\ \E i \in DOMAIN Ingredients : Ingredients[i].IngredientName = Milk
    /\ Cardinality(DOMAIN Ingredients) = 2

-----------------------------------------------------------------------------
(* Properties of the batch handlers *)

\* The lifecycle rule of the specification
LifecycleRule(quantity, expiration_date, day) ==
    IF expiration_date <= day THEN "Expired"
    ELSE IF quantity = 0 THEN "Used"
    ELSE "Available"

IsRead(r) == r.op \in {"get_all_batches", "get_batches_for_ingredient"}

\* C6 as claimed: for every batch row a read returns, the status returned and
\* the status stored after the read are the lifecycle rule of the row's
\* quantity and expiration date on the day of the read.
C6_ReadGivesLifecycleStatus ==
    (IsRead(resp) /\ resp.code = 200 /\ resp.day = today) =>
        \A b \in DOMAIN resp.rows :
            /\ resp.rows[b].Status =
                  LifecycleRule(IngredientBatches[b].Quantity,
                                IngredientBatches[b].ExpirationDate, today)
            /\ IngredientBatches[b].Status = resp.rows[b].Status

\* C7 as claimed: a create_batch or update_batch that commits its changes
\* answers with the status it has stored, which is the lifecycle rule of the
\* batch's resulting quantity and expiration date.
C7_WriteGivesLifecycleStatus ==
    (resp.op \in {"create_batch", "update_batch"} /\ "id" \in DOMAIN resp
        /\ resp.day = today) =>
        /\ resp.id \in DOMAIN IngredientBatches
        /\ resp.code = 200
        /\ resp.status = LifecycleRule(IngredientBatches[resp.id].Quantity,
                                       IngredientBatches[resp.id].ExpirationDate, today)
        /\ IngredientBatches[resp.id].Status = resp.status

\* The sum of the quantities of the batches of ingredient i
RECURSIVE BatchTotalOver(_, _)
BatchTotalOver(bs, i) ==
    IF bs = {} THEN 0
    ELSE LET b == CHOOSE x \in bs : TRUE IN
         (IF IngredientBatches[b].IngredientID = i
          THEN IngredientBatches[b].Quantity ELSE 0)
         + BatchTotalOver(bs \ {b}, i)

BatchTotal(i) == BatchTotalOver(DOMAIN IngredientBatches, i)

\* The Amount every ingredient of the batch specification is created with
BatchSpecAmount(i) == 70

\* C8 as claimed: as long as only batches are created and updated, each
\* ingredient's Amount is the Amount it was created with plus the sum of the
\* current quantities of its batches: a create_batch adds the batch quantity
\* and an update_batch that sets quantity adds the new quantity minus the
\* stored one.
C8_AmountFollowsBatches ==
    \A i \in DOMAIN Ingredients :
        Ingredients[i].Amount = BatchSpecAmount(i) + BatchTotal(i)

\* C9: a request answered 400, 404 or 409 leaves both tables as they were.
C9_ErrorsChangeNothing ==
    [][resp'.code \in {400, 404, 409} =>
          /\ Ingredients' = Ingredients
          /\ IngredientBatches' = IngredientBatches]_vars

\* create_batch was answered 404 while an ingredient and a batch are stored
C9_Witness ==
    /\ resp.op = "create_batch" /\ resp.code = 404
    /\ Ingredients # <<>>
    /\ IngredientBatches # <<>>

-----------------------------------------------------------------------------
(* Properties of token validation *)

\* The roles each operation admits
AllowList(op) ==
    IF op \in {"add_ingredient", "update_ingredient", "delete_ingredient",
               "create_batch", "update_batch", "get_all_batches",
               "get_batches_for_ingredient"}
    THEN {"admin", "manager", "staff"}
    ELSE IF op \in {"get_all_ingredients", "get_ingredient_count",
                    "get_stock_status_counts", "get_low_stock_alerts"}
    THEN {"admin", "manager", "staff", "cashier"}
    ELSE IF op = DeductOp THEN {"admin", "cashier", "manager"}
    ELSE {}

\* The status the identity service's answer refuses the operation with,
\* 0 when it does not
RefusedWith(op) ==
    IF auth.kind = "HTTPStatusError" THEN auth.status_code
    ELSE IF auth.kind = "RequestError" THEN 503
    ELSE IF auth.userRole \notin AllowList(op) THEN 403
    ELSE 0

\* C11: every step of an operation is taken under an answer of the identity
\* service. When the answer is non-2xx the operation ends with the same
\* status code, when the service is unreachable with 503, and when the role
\* is not in the operation's allow-list with 403: the response then carries
\* nothing read from the store and neither table, no identity counter and no
\* transaction changes, and no statement of it is left to run. Only with a role in the allow-list (admin, manager,
\* staff for ingredient create/update/delete and the batch operations, also
\* cashier for the four ingredient reads, admin, cashier, manager for
\* deduct-from-sale) does the operation go on to the store.
C11_ValidationPrecedesStore ==
    [][(<<Ingredients, IngredientBatches, nextIngredientID, nextBatchID,
          saleVars, calls, resp>>' #
        <<Ingredients, IngredientBatches, nextIngredientID, nextBatchID,
          saleVars, calls, resp>>) =>
          IF RefusedWith(resp'.op) # 0
          THEN /\ resp' = [op |-> resp'.op, code |-> RefusedWith(resp'.op)]
               /\ UNCHANGED <<Ingredients, IngredientBatches, nextIngredientID,
                              nextBatchID, saleVars, calls>>
          ELSE /\ resp'.code \in {0, 200, 201, 400, 404, 409, 500}
               /\ auth.userRole \in AllowList(resp'.op)]_vars

\* A cashier was refused the deletion of a stored ingredient that has a batch
C11_Witness ==
    /\ auth = [kind |-> "ok", userRole |-> "cashier"]
    /\ resp = [op |-> "delete_ingredient", code |-> 403]
    /\ 1 \in DOMAIN Ingredients
    /\ IngredientBatches # <<>>

-----------------------------------------------------------------------------
(* Properties of the lazy recomputation *)

\* C13: a batch read writes the Status of a row only when the status
\* recomputed from the row read differs from the stored one, so a read that
\* follows another read with no request and no change of date in between
\* writes no Status and returns, for every row the first read returned, the
\* row the first read returned; when it selects no other rows than the first
\* it leaves the table as it is.
C13_SecondReadWritesNothing ==
    [][(/\ \E r \in Requests : calls[r].op = resp'.op /\ calls'[r] = NoCall
        /\ IsRead(resp') /\ resp'.code \in {200, 500}
        /\ IsRead(resp'.last) /\ resp'.last.day = resp'.day) =>
          /\ \A b \in resp'.selected \cap resp'.last.selected :
                /\ b \notin resp'.writes
                /\ IngredientBatches'[b] = IngredientBatches[b]
                /\ b \in DOMAIN resp'.rows \cap DOMAIN resp'.last.rows =>
                      resp'.rows[b] = resp'.last.rows[b]
          /\ resp'.selected \subseteq resp'.last.selected =>
                /\ resp'.writes = {}
                /\ IngredientBatches' = IngredientBatches]_vars

\* The list of all batches was read twice in a row on a day when a batch
\* with stock left is past its expiration date: the second read returned it
\* 'Expired' and wrote nothing
C13_Witness ==
    /\ resp.op = "get_all_batches" /\ resp.code = 200
    /\ resp.last.op = "get_all_batches" /\ resp.last.day = today
    /\ resp.day = today
    /\ resp.writes = {}
    /\ \E b \in DOMAIN resp.rows :
          /\ resp.rows[b].Status = "Expired"
          /\ resp.last.rows[b].Status = "Expired"
          /\ IngredientBatches[b].Quantity > 0
          /\ IngredientBatches[b].ExpirationDate < today

-----------------------------------------------------------------------------
(* Properties of the stored ingredient Status *)

\* C14: create_batch and update_batch change the Amount of the batch's
\* ingredient by the change of the batch's quantity and leave every other
\* column of every ingredient, the Status among them, as stored; the stored
\* Status of an ingredient changes only in an update_ingredient on it and in
\* the commit of a deduct-from-sale, so a Status a batch has made stale is
\* kept, and returned by get_all_ingredients, until one of the two.
C14_BatchesLeaveStatus ==
    [][/\ \A i \in DOMAIN Ingredients \cap DOMAIN Ingredients' :
             Ingredients'[i].Status # Ingredients[i].Status =>
                 \/ resp' = [op |-> "update_ingredient", code |-> 200, id |-> i,
                             row |-> Ingredients'[i]]
                 \/ pc = "commit" /\ resp'.op = DeductOp /\ resp'.code = 200
       /\ (resp'.op \in {"create_batch", "update_batch"} /\ "id" \in DOMAIN resp') =>
             LET p == IngredientBatches'[resp'.id].IngredientID
                 was == IF resp'.id \in DOMAIN IngredientBatches
                        THEN IngredientBatches[resp'.id].Quantity ELSE 0
             IN /\ DOMAIN Ingredients' = DOMAIN Ingredients
                /\ \A i \in DOMAIN Ingredients :
                      Ingredients'[i] =
                          [Ingredients[i] EXCEPT !.Amount =
                              IF i = p
                              THEN @ + IngredientBatches'[resp'.id].Quantity - was
                              ELSE @]]_vars

\* An ingredient stored with Amount 0 was restocked by a batch of 10.0 and
\* the list of ingredients returns it with Amount 10.0 and 'Not Available'
C14_Witness ==
    /\ resp.op = "get_all_ingredients" /\ resp.code = 200
    /\ 1 \in DOMAIN resp.body
    /\ resp.body[1].Amount = 100
    /\ resp.body[1].Status = "Not Available"
    /\ get_status(resp.body[1].Amount, resp.body[1].Measurement) = "Low Stock"
    /\ \E b \in DOMAIN IngredientBatches : IngredientBatches[b].Quantity = 100

-----------------------------------------------------------------------------
(* Properties of concurrent sales *)

\* The Amount the ingredient of the concurrent specification is stored with
StockedAmount(i) == 5000

\* What a request has deducted from ingredient i for good
CommittedBy(r, i) ==
    IF sales[r].code = 200 THEN Deducted(sales[r].sale_data, i) ELSE 0

\* C15: whatever the order in which the statements of two deduct-from-sale
\* requests are executed, each UPDATE being atomic, the stored Amount of an
\* ingredient is the Amount it was stocked with minus what each committed
\* request deducts from it; when both requests have committed it is the
\* initial Amount minus the deduction of the one minus the deduction of the
\* other, and a request that has not committed or was rolled back has
\* taken nothing.
C15_NoDeductionLost ==
    \A i \in DOMAIN Ingredients :
        Ingredients[i].Amount =
            StockedAmount(i) - CommittedBy(1, i) - CommittedBy(2, i)

\* Both requests have committed after each of them executed an UPDATE of the
\* shared ingredient while the other had an uncommitted deduction from it
C15_Witness ==
    /\ \A r \in Requests : sales[r].code = 200 /\ sales[r].saw
    /\ 1 \in DOMAIN Ingredients
    /\ CommittedBy(1, 1) > 0 /\ CommittedBy(2, 1) > 0
    /\ CommittedBy(1, 1) # CommittedBy(2, 1)
    /\ Ingredients[1].Amount = 5000 - CommittedBy(1, 1) - CommittedBy(2, 1)

====
